---- MODULE Spec2Model ----
(***************************************************************************)
(* Chroma Vision (ColorChallenge): the App component's game state, its     *)
(* event handlers and the round generator generateColors.                  *)
(*                                                                         *)
(* Numbers.  The program computes with JavaScript doubles.  A number x is  *)
(* represented here by the integer x * Scale (fixed point, Scale units per *)
(* 1.0), and a product with the decay factor is rounded towards zero.  A   *)
(* value returned by Math.random() is represented by an integer r in       *)
(* 0 .. RandDen-1 that stands for r / RandDen.                             *)
(*                                                                         *)
(* Closures.  generateColors is a useCallback closure over the `level` and *)
(* `difficulty` of the render in which it was created; the state setters   *)
(* called in an event handler take effect at the next render.  A handler   *)
(* therefore calls generateColors with the values of `level` and           *)
(* `difficulty` from BEFORE its own updates: the actions pass the unprimed *)
(* variables.                                                              *)
(*                                                                         *)
(* Controls.  The difficulty and start buttons are rendered in the START   *)
(* panel, the grid in the PLAYING panel and the restart button in the      *)
(* GAMEOVER panel; a control is taken to be clickable only while status    *)
(* selects its panel (the exit animation of a panel is not modelled).      *)
(***************************************************************************)
EXTENDS Integers, Sequences, FiniteSets, TLC

\* ---- program constants ----
INITIAL_TIME == 30
GRID_SIZE == 5

\* ---- bounds of the model ----
Scale == 10000
RandDen == 1000
MaxLevel == 4
MaxGenLevel == 110
MaxWrong == 2
ArgBelow == 2

VARIABLES status, difficulty, score, level, timeLeft, grid, targetIndex,
          diffInfo, wrongClicks, genLevel, currentDiff, shiftType

vars == <<status, difficulty, score, level, timeLeft, grid, targetIndex,
          diffInfo, wrongClicks, genLevel, currentDiff, shiftType>>

Difficulty == {"EASY", "NORMAL", "HARD"}

GameStatus == {"START", "PLAYING", "GAMEOVER"}

Min(a, b) == IF a < b THEN a ELSE b

Max(a, b) == IF a > b THEN a ELSE b

\* ---- generateColors: the pure parts ----

\* let baseDiff = 15; EASY 25; HARD 12
BaseDiff(d) == IF d = "EASY" THEN 25 ELSE IF d = "HARD" THEN 12 ELSE 15

\* let decay = 0.95; EASY 0.97; HARD 0.92 (in hundredths)
DecayPct(d) == IF d = "EASY" THEN 97 ELSE IF d = "HARD" THEN 92 ELSE 95

\* x multiplied by the decay factor pct / 100 once, twice, ... k times, each
\* product rounded towards zero: the sequence of the k results.  The range
\* is split in halves to keep the evaluation shallow.
RECURSIVE PowRange(_, _, _)
PowRange(x, pct, k) ==
    IF k = 0 THEN <<>>
    ELSE IF k = 1 THEN <<(x * pct) \div 100>>
    ELSE LET a == PowRange(x, pct, k \div 2)
         IN a \o PowRange(a[Len(a)], pct, k - k \div 2)

\* the powers the model can ask for (the exponent is a level minus one):
\* element n+1 is the n-th power of the tier's decay
PowTable ==
    [EASY |-> <<Scale>> \o PowRange(Scale, 97, Max(MaxLevel, MaxGenLevel)),
     NORMAL |-> <<Scale>> \o PowRange(Scale, 95, Max(MaxLevel, MaxGenLevel)),
     HARD |-> <<Scale>> \o PowRange(Scale, 92, Max(MaxLevel, MaxGenLevel))]

\* Math.pow(decay, n), in Scale units; a negative exponent is the reciprocal
Pow(pct, n) ==
    LET t == IF pct = 97 THEN PowTable.EASY
             ELSE IF pct = 92 THEN PowTable.HARD ELSE PowTable.NORMAL
    IN IF n >= 0 THEN t[n + 1] ELSE (Scale * Scale) \div t[1 - n]

\* the mutant: the floor Math.max(1, .) left out
CurrentDiffNoFloor(d, lvl) == BaseDiff(d) * Pow(DecayPct(d), lvl - 1)

\* const currentDiff = Math.max(1, baseDiff * Math.pow(decay, level - 1))
CurrentDiff(d, lvl) == Max(Scale, BaseDiff(d) * Pow(DecayPct(d), lvl - 1))

\* const h = Math.floor(Math.random() * 360)
BaseHue(r) == ((r * 360) \div RandDen) * Scale

\* the mutant: saturation drawn up to 100
BaseSatWide(r) == ((r * 61) \div RandDen + 40) * Scale

\* const s = Math.floor(Math.random() * 40) + 40
BaseSat(r) == ((r * 40) \div RandDen + 40) * Scale

\* const l = Math.floor(Math.random() * 40) + 30
BaseLight(r) == ((r * 40) \div RandDen + 30) * Scale

\* the three branches on shiftType: < 0.33, < 0.66, else
ShiftChannel(r) == IF r * 100 < 33 * RandDen THEN "H"
                   ELSE IF r * 100 < 66 * RandDen THEN "S"
                   ELSE "L"

\* Math.random() > 0.5 ? currentDiff : -currentDiff
SignedDiff(r, cd) == IF 2 * r > RandDen THEN cd ELSE 0 - cd

\* the mutant: the hue sum is not reduced modulo 360
ShiftHueNoWrap(h, cd) == h + cd

\* targetH = (h + currentDiff) % 360
ShiftHue(h, cd) == (h + cd) % (360 * Scale)

\* the mutant: only the lower bound is applied
ClampNoMin(x) == Max(0, x)

\* Math.min(100, Math.max(0, x))
Clamp(x) == Min(100 * Scale, Max(0, x))

\* `hsl(${h}, ${s}%, ${l}%)`: the string is determined by, and determines,
\* the three numbers it interpolates; it is kept as that triple.
Hsl(h, s, l) == [h |-> h, s |-> s, l |-> l]

\* const newTargetIndex = Math.floor(Math.random() * (GRID_SIZE * GRID_SIZE))
NewTargetIndex(r) == (r * (GRID_SIZE * GRID_SIZE)) \div RandDen

\* the mutant: every cell from the target on is marked
NewGridFrom(idx, baseColor, targetColor) ==
    [i \in 1..(GRID_SIZE * GRID_SIZE) |->
        [color |-> IF i - 1 >= idx THEN targetColor ELSE baseColor,
         isTarget |-> i - 1 >= idx]]

\* Array.from({ length: GRID_SIZE * GRID_SIZE }, ...); cell i is newGrid[i+1]
NewGrid(idx, baseColor, targetColor) ==
    [i \in 1..(GRID_SIZE * GRID_SIZE) |->
        [color |-> IF i - 1 = idx THEN targetColor ELSE baseColor,
         isTarget |-> i - 1 = idx]]

\* Number(currentDiff.toFixed(2)), in hundredths
ToFixed2(cd) == (cd * 100 + Scale \div 2) \div Scale

\* ---- the random draws of one generateColors call ----
\* <<hue, saturation, lightness, shiftType, sign, targetIndex>>
Draws == {500} \X {960} \X {500} \X {100, 500, 900} \X {250, 750} \X {0, 999}

\* base colours (0,40,30), (359,78,69) and (180,79,50); shiftType on both
\* sides of 0.33 and of 0.66; the sign draw at 0.5 and above it
GenBases == {<<0, 0, 0>>, <<999, 960, 999>>, <<500, 999, 500>>}

GenDraws == {<<b[1], b[2], b[3], c, g, i>> :
                b \in GenBases, c \in {0, 330, 660, 999},
                g \in {500, 750}, i \in {0, 999}}

\* ---- state ----
Init ==
    /\ status = "START"
    /\ difficulty = "NORMAL"
    /\ score = 0
    /\ level = 1
    /\ timeLeft = INITIAL_TIME
    /\ grid = <<>>
    /\ targetIndex = -1
    /\ diffInfo = <<>>
    /\ wrongClicks = 0
    /\ genLevel = 0
    /\ currentDiff = 0
    /\ shiftType = 0

\* generateColors as created in a render with level = lvl, difficulty = d,
\* run with some draws r of D.  genLevel, currentDiff and shiftType record
\* the call's level, currentDiff and shiftType.
generateColors(lvl, d, D) ==
    LET cd == CurrentDiff(d, lvl)
    IN \E r \in D :
        LET h == BaseHue(r[1])
            s == BaseSat(r[2])
            l == BaseLight(r[3])
            ch == ShiftChannel(r[4])
            targetH == IF ch = "H" THEN ShiftHue(h, cd) ELSE h
            targetS == IF ch = "S" THEN Clamp(s + SignedDiff(r[5], cd)) ELSE s
            targetL == IF ch = "L" THEN Clamp(l + SignedDiff(r[5], cd)) ELSE l
            baseColor == Hsl(h, s, l)
            targetColor == Hsl(targetH, targetS, targetL)
            newTargetIndex == NewTargetIndex(r[6])
        IN /\ grid' = NewGrid(newTargetIndex, baseColor, targetColor)
           /\ targetIndex' = newTargetIndex
           /\ diffInfo' = <<[base |-> baseColor, target |-> targetColor,
                             diff |-> ToFixed2(cd)]>>
           /\ genLevel' = lvl
           /\ currentDiff' = cd
           /\ shiftType' = r[4]

\* the mutant: the difficulty buttons stay on in every panel
SetDifficultyAnytime(d) ==
    /\ difficulty' = d
    /\ UNCHANGED <<status, score, level, timeLeft, grid, targetIndex,
                   diffInfo, wrongClicks, genLevel, currentDiff, shiftType>>

\* onClick={() => setDifficulty(Difficulty[key])}, rendered while START
SetDifficulty(d) ==
    /\ status = "START"
    /\ difficulty' = d
    /\ UNCHANGED <<status, score, level, timeLeft, grid, targetIndex,
                   diffInfo, wrongClicks, genLevel, currentDiff, shiftType>>

\* the mutant: startGame without setLevel(1)
startGameKeepsLevel(D) ==
    /\ status = "START"
    /\ score' = 0
    /\ timeLeft' = INITIAL_TIME
    /\ wrongClicks' = 0
    /\ status' = "PLAYING"
    /\ generateColors(level, difficulty, D)
    /\ UNCHANGED <<difficulty, level>>

\* startGame, its generateColors call drawing from D
startGameWith(D) ==
    /\ status = "START"
    /\ score' = 0
    /\ level' = 1
    /\ timeLeft' = INITIAL_TIME
    /\ wrongClicks' = 0
    /\ status' = "PLAYING"
    /\ generateColors(level, difficulty, D)
    /\ UNCHANGED difficulty

startGame == startGameWith(Draws)

\* the mutant: a correct click skips a level
NextLevelSkip(prev) == prev + 2

\* setLevel(prev => prev + 1)
NextLevel(prev) == prev + 1

\* the branch index === targetIndex of handleBlockClick
ClickCorrectWith(D, cap) ==
    /\ status = "PLAYING"
    /\ level < cap
    /\ score' = score + 1
    /\ level' = NextLevel(level)
    /\ timeLeft' = Min(INITIAL_TIME, timeLeft + 2)
    /\ generateColors(level, difficulty, D)
    /\ UNCHANGED <<status, difficulty, wrongClicks>>

\* the mutant: a wrong click also takes a point back
ClickWrongPenalisesScore ==
    /\ status = "PLAYING"
    /\ wrongClicks < MaxWrong
    /\ wrongClicks' = wrongClicks + 1
    /\ timeLeft' = Max(0, timeLeft - 3)
    /\ score' = Max(0, score - 1)
    /\ UNCHANGED <<status, difficulty, level, grid, targetIndex,
                   diffInfo, genLevel, currentDiff, shiftType>>

\* the mutant: the penalty is not floored at 0
ClickWrongNoFloor ==
    /\ status = "PLAYING"
    /\ wrongClicks < MaxWrong
    /\ wrongClicks' = wrongClicks + 1
    /\ timeLeft' = timeLeft - 3
    /\ UNCHANGED <<status, difficulty, score, level, grid, targetIndex,
                   diffInfo, genLevel, currentDiff, shiftType>>

\* the else branch of handleBlockClick
ClickWrong ==
    /\ status = "PLAYING"
    /\ wrongClicks < MaxWrong
    /\ wrongClicks' = wrongClicks + 1
    /\ timeLeft' = Max(0, timeLeft - 3)
    /\ UNCHANGED <<status, difficulty, score, level, grid, targetIndex,
                   diffInfo, genLevel, currentDiff, shiftType>>

handleBlockClick(index) ==
    /\ grid # <<>>
    /\ IF status # "PLAYING" THEN UNCHANGED vars
       ELSE IF index = targetIndex THEN ClickCorrectWith(Draws, MaxLevel)
       ELSE ClickWrong

\* the mutant: the tick counts down to 0 and never ends the game
TimerTickNoEnd ==
    /\ status = "PLAYING"
    /\ timeLeft' = Max(0, timeLeft - 1)
    /\ UNCHANGED <<status, difficulty, score, level, grid, targetIndex,
                   diffInfo, wrongClicks, genLevel, currentDiff, shiftType>>

\* the mutant: the interval is never cleared and ticks in every status
TimerTickAlways ==
    /\ IF timeLeft <= 1
       THEN status' = "GAMEOVER" /\ timeLeft' = 0
       ELSE status' = status /\ timeLeft' = timeLeft - 1
    /\ UNCHANGED <<difficulty, score, level, grid, targetIndex, diffInfo,
                   wrongClicks, genLevel, currentDiff, shiftType>>

\* the setInterval callback, active while status is PLAYING
TimerTick ==
    /\ status = "PLAYING"
    /\ IF timeLeft <= 1
       THEN status' = "GAMEOVER" /\ timeLeft' = 0
       ELSE status' = status /\ timeLeft' = timeLeft - 1
    /\ UNCHANGED <<difficulty, score, level, grid, targetIndex, diffInfo,
                   wrongClicks, genLevel, currentDiff, shiftType>>

\* onClick={() => setStatus('START')}, rendered while GAMEOVER
Restart ==
    /\ status = "GAMEOVER"
    /\ status' = "START"
    /\ UNCHANGED <<difficulty, score, level, timeLeft, grid, targetIndex,
                   diffInfo, wrongClicks, genLevel, currentDiff, shiftType>>

Next ==
    \/ \E d \in Difficulty : SetDifficulty(d)
    \/ startGame
    \/ \E index \in 0..(GRID_SIZE * GRID_SIZE - 1) : handleBlockClick(index)
    \/ TimerTick
    \/ Restart

Spec == Init /\ [][Next]_vars

\* While status is PLAYING the interval set by the effect fires every
\* second: the tick is taken whenever it stays enabled.
SpecLive == Init /\ [][Next]_vars /\ WF_vars(TimerTick)

\* ---- the generator over its input domain: a player who only clicks the
\* target, so that every level up to MaxGenLevel is generated, with the wider
\* set of draws ----
GenStartGame == startGameWith(GenDraws)

GenClickCorrect == ClickCorrectWith(GenDraws, MaxGenLevel)

NextGen ==
    \/ \E d \in Difficulty : SetDifficulty(d)
    \/ GenStartGame
    \/ GenClickCorrect

SpecGen == Init /\ [][NextGen]_vars

\* ---- the generator called outside its documented domain: the level it
\* reads is drawn from 1 - ArgBelow .. MaxLevel, which includes values below
\* 1 that the handlers of App never store; the call is the one of startGame
\* ----
InitArg ==
    /\ status = "START"
    /\ difficulty \in Difficulty
    /\ score = 0
    /\ level \in (1 - ArgBelow)..MaxLevel
    /\ timeLeft = INITIAL_TIME
    /\ grid = <<>>
    /\ targetIndex = -1
    /\ diffInfo = <<>>
    /\ wrongClicks = 0
    /\ genLevel = 0
    /\ currentDiff = 0
    /\ shiftType = 0

ArgStartGame == startGameWith(GenDraws)

NextArg ==
    \/ \E d \in Difficulty : SetDifficulty(d)
    \/ ArgStartGame

SpecArg == InitArg /\ [][NextArg]_vars

\* ---- properties ----

HasRound == diffInfo # <<>>

base == diffInfo[1].base

target == diffInfo[1].target

\* C1: every round built by generateColors has a target colour different
\* from its base colour, also when the shifted channel is clamped.
C1_BaseDiffersFromTarget == HasRound => base # target

\* a saturation shift that was clamped at 100
C1_Witness ==
    /\ HasRound
    /\ target.s = 100 * Scale
    /\ base.s = 78 * Scale

\* C2: while PLAYING, the applied delta of the round on display is
\* max(1, baseDelta * decay^(level-1)) for the current level and tier.
C2_DeltaIsForCurrentLevel ==
    status = "PLAYING" =>
        currentDiff = Max(Scale, BaseDiff(difficulty)
                                   * Pow(DecayPct(difficulty), level - 1))

\* C3: the first round of every game (PLAYING, no correct click yet) has an
\* applied delta equal to baseDelta(tier).
C3_FirstRoundHasBaseDelta ==
    (status = "PLAYING" /\ level = 1) =>
        currentDiff = BaseDiff(difficulty) * Scale

\* C4: a round created by a correct click never has a larger applied delta
\* than the round it replaces.
C4_DeltaNeverGrowsInGame ==
    [][(status = "PLAYING" /\ score' = score + 1)
         => currentDiff' <= currentDiff]_vars

\* C5: for a fixed tier the applied delta is at least 1 at every level, and
\* the delta at level n+1 is at most the delta at level n.
C5_DeltaMonotoneAndFloored ==
    [][/\ HasRound' => currentDiff' >= Scale
       /\ (HasRound /\ genLevel' = genLevel + 1 /\ difficulty' = difficulty)
             => currentDiff' <= currentDiff]_vars

\* level 50 on HARD, where 12 * 0.92^49 is below 1
C5_Witness ==
    /\ difficulty = "HARD"
    /\ genLevel = 50
    /\ currentDiff = Scale

\* C6: hues lie in [0, 360), saturations and lightnesses in [0, 100]; the
\* base saturation lies in [40, 80] and the base lightness in [30, 70].
C6_ColoursInRange ==
    HasRound =>
        /\ 0 <= base.h /\ base.h < 360 * Scale
        /\ 0 <= target.h /\ target.h < 360 * Scale
        /\ 40 * Scale <= base.s /\ base.s <= 80 * Scale
        /\ 30 * Scale <= base.l /\ base.l <= 70 * Scale
        /\ 0 <= target.s /\ target.s <= 100 * Scale
        /\ 0 <= target.l /\ target.l <= 100 * Scale

\* a hue shift that wrapped past 360
C6_Witness ==
    /\ HasRound
    /\ base.h = 359 * Scale
    /\ target.h < base.h

Clamped(x) == IF x > 100 * Scale THEN 100 * Scale ELSE IF x < 0 THEN 0 ELSE x

\* C7: a shifted saturation or lightness is base + delta or base - delta
\* cut off at 0 and at 100, and the channels not shifted keep the base value.
C7_ShiftClampsAndKeepsOthers ==
    HasRound =>
        \/ /\ target.h # base.h
           /\ target.s = base.s /\ target.l = base.l
        \/ /\ target.s \in {Clamped(base.s + currentDiff),
                            Clamped(base.s - currentDiff)}
           /\ target.h = base.h /\ target.l = base.l
        \/ /\ target.l \in {Clamped(base.l + currentDiff),
                            Clamped(base.l - currentDiff)}
           /\ target.h = base.h /\ target.s = base.s

\* s = 78 with delta 25 added: 100, not 103
C7_Witness ==
    /\ HasRound
    /\ base.s = 78 * Scale
    /\ currentDiff = 25 * Scale
    /\ target.s = 100 * Scale
    /\ target.h = base.h /\ target.l = base.l

\* C8: while PLAYING the grid has 25 cells, exactly one is the target, it is
\* at targetIndex and has the target colour, and the others the base colour.
C8_GridHasOneTarget ==
    status = "PLAYING" =>
        /\ Len(grid) = 25
        /\ Cardinality({i \in 1..Len(grid) : grid[i].isTarget}) = 1
        /\ 0 <= targetIndex /\ targetIndex < 25
        /\ grid[targetIndex + 1].isTarget
        /\ grid[targetIndex + 1].color = target
        /\ \A i \in 1..Len(grid) :
              i # targetIndex + 1 => grid[i].color = base /\ ~grid[i].isTarget

\* a round made by a correct click, the target in the last cell
C8_Witness ==
    /\ status = "PLAYING"
    /\ level = 2
    /\ targetIndex = 24

\* C9: the draw shiftType selects Hue, Saturation or Lightness by thirds of
\* [0,1): below 1/3 Hue, below 2/3 Saturation, else Lightness.
C9_ChannelByThirds ==
    HasRound =>
        /\ (target.h # base.h) <=> (3 * shiftType < RandDen)
        /\ (target.s # base.s) <=>
               (3 * shiftType >= RandDen /\ 3 * shiftType < 2 * RandDen)
        /\ (target.l # base.l) <=> (3 * shiftType >= 2 * RandDen)

\* C10: level is at least 1; a correct click adds exactly 1; a wrong click
\* and a timer tick leave it alone; it returns to 1 only through startGame.
C10_LevelMonotone ==
    [][/\ level >= 1 /\ level' >= 1
       /\ (status = "PLAYING" /\ score' = score + 1) => level' = level + 1
       /\ (wrongClicks' = wrongClicks + 1 \/ timeLeft' < timeLeft)
             => level' = level
       /\ level' # level =>
             \/ status = "PLAYING" /\ status' = "PLAYING"
                /\ level' = level + 1
             \/ status = "START" /\ status' = "PLAYING" /\ level' = 1]_vars

\* a second game, started after one that reached a higher level
C10_Witness ==
    /\ status = "PLAYING"
    /\ level = 1
    /\ genLevel = 3

C13_NoPlayingAtZero == ~(status = "PLAYING" /\ timeLeft = 0)

\* C14: status changes only START -> PLAYING (startGame), PLAYING ->
\* GAMEOVER (a tick that finds timeLeft <= 1) and GAMEOVER -> START
\* (restart); no click changes status; timeLeft changes only while PLAYING
\* or when startGame resets it.
C14_StatusTransitions ==
    [][/\ status' # status =>
             \/ /\ status = "START" /\ status' = "PLAYING"
                /\ score' = 0 /\ level' = 1 /\ timeLeft' = INITIAL_TIME
             \/ /\ status = "PLAYING" /\ status' = "GAMEOVER"
                /\ timeLeft <= 1 /\ timeLeft' = 0
                /\ score' = score /\ wrongClicks' = wrongClicks
             \/ /\ status = "GAMEOVER" /\ status' = "START"
       /\ (status = "PLAYING"
             /\ (score' = score + 1 \/ wrongClicks' = wrongClicks + 1))
             => status' = status
       /\ timeLeft' # timeLeft =>
             \/ status = "PLAYING"
             \/ status = "START" /\ status' = "PLAYING"]_vars

\* back on the START panel after a game with a scored and a wrong click
C14_Witness ==
    /\ status = "START"
    /\ timeLeft = 0
    /\ score >= 1
    /\ wrongClicks >= 1

C16_ScoreIsLevelMinusOne ==
    [][/\ score = level - 1 /\ score' = level' - 1
       /\ (score' # score \/ level' # level) =>
             \/ /\ status = "PLAYING" /\ status' = "PLAYING"
                /\ score' = score + 1 /\ level' = level + 1
             \/ /\ status = "START" /\ status' = "PLAYING"
                /\ score' = 0 /\ level' = 1]_vars

\* the first round of a game started after one that scored twice
C16_Witness ==
    /\ status = "PLAYING"
    /\ score = 0
    /\ level = 1
    /\ genLevel = 3
    /\ wrongClicks = 0
    /\ timeLeft = INITIAL_TIME

\* C17: 0 <= timeLeft <= INITIAL_TIME in every state, for any interleaving
\* of clicks and ticks.
C17_TimeLeftInRange == 0 <= timeLeft /\ timeLeft <= INITIAL_TIME

\* a penalty floored at 0 in a game in which a click was scored
C17_Witness ==
    /\ status = "PLAYING"
    /\ timeLeft = 0
    /\ score >= 1
    /\ wrongClicks >= 1

\* a step that scores: the index === targetIndex branch of a click
CorrectClickStep == status = "PLAYING" /\ score' = score + 1

\* C18: with the timer ticking, if from some point on no correct click
\* occurs, every PLAYING state is followed by GAMEOVER with timeLeft = 0.
C18_GameEndsWithoutScoring ==
    (<>[][~CorrectClickStep]_vars) =>
        [](status = "PLAYING" => <>(status = "GAMEOVER" /\ timeLeft = 0))

\* a game that ran out on timer ticks alone
C18_Witness ==
    /\ status = "GAMEOVER"
    /\ timeLeft = 0
    /\ score = 0
    /\ wrongClicks = 0

====
